---- MODULE Spec2Model ----
(***************************************************************************)
(* Configuration resolution of the rate limiter (package ratelimiter):     *)
(* setConfiguration merges compiled-in defaults, the caller's              *)
(* RateLimiterConfig and the process environment.                          *)
(*                                                                         *)
(* Strings that the code takes apart are sequences of characters: an       *)
(* environment variable NAME ("RATE_LIMITER_DEBUG" is                      *)
(* <<"R","A","T","E","_","L", ... ,"U","G">>), a custom token identifier   *)
(* and an environment VALUE ("-12" is <<"-","1","2">>); the empty string   *)
(* is <<>> and "\n" is the line feed character.                            *)
(*                                                                         *)
(* *RateLimiterRateConfig pointers are addresses into heap (0 is nil), so  *)
(* that the aliasing the code creates (a completed custom token entry      *)
(* shares config.Token's object) is part of the model.  config and         *)
(* defaultConfiguration are pointers too: configIsDefault says that both   *)
(* name one RateLimiterConfig object and tokensAreDefault that their       *)
(* CustomTokens point to one map, and a write through one is then a write  *)
(* through the other.  The caller's                                        *)
(* configuration supplies each policy as an object of its own; its         *)
(* CustomTokens is nil, points to a nil map or points to a map.            *)
(***************************************************************************)
EXTENDS Integers, Sequences, FiniteSets, TLC

VARIABLES
    env,                  \* the process environment: name -> value
    argNil,               \* the pointer passed to setConfiguration is nil
    config,               \* the RateLimiterConfig object being resolved
    heap,                 \* the RateLimiterRateConfig objects, by address
    defaultConfiguration, \* setConfiguration's local of that name
    configIsDefault,      \* config and defaultConfiguration are one object
    tokensAreDefault,     \* their CustomTokens point to one map
    customTokens,         \* identifiers of getCustomTokenList not yet configured
    nextId,               \* identity of the next adapter / response writer
    out,                  \* the debug lines printed so far
    pc,                   \* position inside setConfiguration
    caller,               \* the argument as it was when the call started
    calls                 \* number of setConfiguration calls started

vars == <<env, argNil, config, heap, defaultConfiguration, configIsDefault,
          tokensAreDefault, customTokens, nextId, out, pc, caller, calls>>

-----------------------------------------------------------------------------
(* Bounds *)

\* setConfiguration is called at most this many times on the same object
MaxCalls == 2

-----------------------------------------------------------------------------
(* Environment variable names, src/unnamed/part_000:14-22 *)

envKeyIPMaxRequestsPerSecond ==
    <<"R", "A", "T", "E", "_", "L", "I", "M", "I", "T", "E", "R", "_", "I", "P", "_", "M", "A",
      "X", "_", "R", "E", "Q", "U", "E", "S", "T", "S">>
envKeyIPBlockTimeMilliseconds_SameAsMax ==
    <<"R", "A", "T", "E", "_", "L", "I", "M", "I", "T", "E", "R", "_", "I", "P", "_", "M", "A",
      "X", "_", "R", "E", "Q", "U", "E", "S", "T", "S">>
envKeyIPBlockTimeMilliseconds ==
    <<"R", "A", "T", "E", "_", "L", "I", "M", "I", "T", "E", "R", "_", "I", "P", "_", "B", "L",
      "O", "C", "K", "_", "T", "I", "M", "E">>
envKeyTokenMaxRequestsPerSecond ==
    <<"R", "A", "T", "E", "_", "L", "I", "M", "I", "T", "E", "R", "_", "T", "O", "K", "E", "N",
      "_", "M", "A", "X", "_", "R", "E", "Q", "U", "E", "S", "T", "S">>
envKeyTokenBlockTimeMilliseconds ==
    <<"R", "A", "T", "E", "_", "L", "I", "M", "I", "T", "E", "R", "_", "T", "O", "K", "E", "N",
      "_", "B", "L", "O", "C", "K", "_", "T", "I", "M", "E">>
envKeyDebug ==
    <<"R", "A", "T", "E", "_", "L", "I", "M", "I", "T", "E", "R", "_", "D", "E", "B", "U", "G">>
envUseRedis ==
    <<"R", "A", "T", "E", "_", "L", "I", "M", "I", "T", "E", "R", "_", "U", "S", "E", "_", "R",
      "E", "D", "I", "S">>
envRedisAddress ==
    <<"R", "A", "T", "E", "_", "L", "I", "M", "I", "T", "E", "R", "_", "R", "E", "D", "I", "S",
      "_", "A", "D", "D", "R", "E", "S", "S">>
envRedisPassword ==
    <<"R", "A", "T", "E", "_", "L", "I", "M", "I", "T", "E", "R", "_", "R", "E", "D", "I", "S",
      "_", "P", "A", "S", "S", "W", "O", "R", "D">>
envRedisDB ==
    <<"R", "A", "T", "E", "_", "L", "I", "M", "I", "T", "E", "R", "_", "R", "E", "D", "I", "S",
      "_", "D", "B">>

-----------------------------------------------------------------------------
(* Environment Reader: (value, ok) lookups *)

Digits == {"0", "1", "2", "3", "4", "5", "6", "7", "8", "9"}

DigitValue(c) ==
    CASE c = "0" -> 0 [] c = "1" -> 1 [] c = "2" -> 2 [] c = "3" -> 3
      [] c = "4" -> 4 [] c = "5" -> 5 [] c = "6" -> 6 [] c = "7" -> 7
      [] c = "8" -> 8 [] c = "9" -> 9

RECURSIVE ParseDigits(_, _)
ParseDigits(s, acc) ==
    IF s = <<>> THEN acc
    ELSE ParseDigits(Tail(s), acc * 10 + DigitValue(Head(s)))

\* base-10 signed integer; malformed text is not ok
ParseInt(s) ==
    LET signed == s # <<>> /\ Head(s) \in {"-", "+"}
        body   == IF signed THEN Tail(s) ELSE s
    IN  IF body = <<>> \/ \E i \in 1..Len(body) : body[i] \notin Digits
        THEN [ok |-> FALSE, value |-> 0]
        ELSE [ok |-> TRUE,
              value |-> IF signed /\ Head(s) = "-"
                        THEN 0 - ParseDigits(body, 0)
                        ELSE ParseDigits(body, 0)]

ToLower(c) ==
    CASE c = "T" -> "t" [] c = "R" -> "r" [] c = "U" -> "u" [] c = "E" -> "e"
      [] c = "F" -> "f" [] c = "A" -> "a" [] c = "L" -> "l" [] c = "S" -> "s"
      [] OTHER -> c

\* case-insensitive truthy / falsy literals; anything else is not ok
ParseBool(s) ==
    LET l == [i \in 1..Len(s) |-> ToLower(s[i])]
    IN  IF l = <<"t", "r", "u", "e">> THEN [ok |-> TRUE, value |-> TRUE]
        ELSE IF l = <<"f", "a", "l", "s", "e">> THEN [ok |-> TRUE, value |-> FALSE]
        ELSE [ok |-> FALSE, value |-> FALSE]

getInt64Env(e, key) ==
    IF key \in DOMAIN e THEN ParseInt(e[key]) ELSE [ok |-> FALSE, value |-> 0]

getBoolEnv(e, key) ==
    IF key \in DOMAIN e THEN ParseBool(e[key]) ELSE [ok |-> FALSE, value |-> FALSE]

\* a variable set to the empty string is present
getStringEnv(e, key) ==
    IF key \in DOMAIN e THEN [ok |-> TRUE, value |-> e[key]]
    ELSE [ok |-> FALSE, value |-> <<>>]

-----------------------------------------------------------------------------
(* Debug Tracer *)

\* prints one line when the configuration's Debug gate is on
DebugPrintfWithoutKey(m, line) ==
    IF m.config.Debug THEN [m EXCEPT !.out = Append(@, line)] ELSE m

-----------------------------------------------------------------------------
(* Data model, src/unnamed/part_000:24-37 *)

RateLimiterRateConfig(mrps, bt) ==
    [MaxRequestsPerSecond |-> mrps, BlockTimeMilliseconds |-> bt]

\* adapter.RateLimitStorageAdapter / responsewriter.RateLimiterResponseWriter
\* values: an interface value is nil or an identified instance of some kind
NilInterface == [kind |-> "nil", id |-> 0, address |-> <<>>, password |-> <<>>, db |-> 0]
Instance(kind, id) == [kind |-> kind, id |-> id, address |-> <<>>, password |-> <<>>, db |-> 0]

NewRateLimitMemoryStorageAdapter(id) == Instance("memory", id)
NewRateLimiterDefaultResponseWriter(id) == Instance("default", id)
NewRateLimitRedisStorageAdapter(id, redisAddress, redisPassword, redisDB) ==
    [kind |-> "redis", id |-> id, address |-> redisAddress,
     password |-> redisPassword, db |-> redisDB]

\* *map[string]*RateLimiterRateConfig: a nil pointer, a pointer to a nil map
\* (present, not allocated: it reads as empty and cannot be written), or a
\* pointer to a map from identifier to address
NilMap == [present |-> FALSE, allocated |-> FALSE, entries |-> <<>>]
PointerToNilMap == [present |-> TRUE, allocated |-> FALSE, entries |-> <<>>]
MapOf(entries) == [present |-> TRUE, allocated |-> TRUE, entries |-> entries]

MapPut(f, key, value) ==
    [k \in DOMAIN f \cup {key} |-> IF k = key THEN value ELSE f[k]]

\* the zero RateLimiterConfig{}
ZeroConfig ==
    [IP |-> 0, Token |-> 0, CustomTokens |-> NilMap,
     StorageAdapter |-> NilInterface, ResponseWriter |-> NilInterface,
     Debug |-> FALSE, DisableEnvs |-> FALSE]

\* The state setConfiguration works on, as one record
Machine ==
    [config |-> config, heap |-> heap,
     defaultConfiguration |-> defaultConfiguration,
     configIsDefault |-> configIsDefault,
     tokensAreDefault |-> tokensAreDefault,
     nextId |-> nextId, out |-> out, panicked |-> FALSE]

\* what defaultConfiguration reads after a write through config: the same
\* object when the two pointers are equal (line 69), the same map when only the
\* CustomTokens pointers are (line 138)
Shared(m) ==
    IF m.configIsDefault
    THEN [m EXCEPT !.defaultConfiguration = m.config]
    ELSE IF m.tokensAreDefault
    THEN [m EXCEPT !.defaultConfiguration.CustomTokens = m.config.CustomTokens]
    ELSE m

-----------------------------------------------------------------------------
(* Default Policy Provider *)

getDefaultConfiguration(m) ==
    LET ip  == Len(m.heap) + 1
        tok == Len(m.heap) + 2
    IN  [m EXCEPT
           !.heap = m.heap \o <<RateLimiterRateConfig(100, 1000),
                                RateLimiterRateConfig(200, 500)>>,
           !.nextId = m.nextId + 2,
           !.defaultConfiguration =
               [IP |-> ip, Token |-> tok, CustomTokens |-> MapOf(<<>>),
                StorageAdapter |-> NewRateLimitMemoryStorageAdapter(m.nextId),
                ResponseWriter |-> NewRateLimiterDefaultResponseWriter(m.nextId + 1),
                Debug |-> FALSE, DisableEnvs |-> FALSE]]

-----------------------------------------------------------------------------
(* setConfiguration, lines 65-78: defaults, nil argument, the debug gate *)

setConfigurationEntry(m0, isNil, e) ==
    LET m1    == [getDefaultConfiguration(m0) EXCEPT !.configIsDefault = FALSE,
                                                     !.tokensAreDefault = FALSE]
        m2    == IF isNil
                 THEN [m1 EXCEPT !.config = m1.defaultConfiguration,
                                 !.configIsDefault = TRUE,
                                 !.tokensAreDefault = TRUE]
                 ELSE m1
        debug == getBoolEnv(e, envKeyDebug)
    IN  IF ~m2.config.DisableEnvs /\ debug.ok
        THEN DebugPrintfWithoutKey(Shared([m2 EXCEPT !.config.Debug = debug.value]),
                                   <<"using env %s", envKeyDebug>>)
        ELSE m2

-----------------------------------------------------------------------------
(* Precedence Resolver: IP and Token *)

\* a variant that adds the environment's value to the field instead of storing it
configureIP_Accumulate(m0, e) ==
    LET m1   == IF m0.config.IP = 0
                THEN [m0 EXCEPT !.config.IP = m0.defaultConfiguration.IP]
                ELSE m0
        ip   == m1.config.IP
        mrps == getInt64Env(e, envKeyIPMaxRequestsPerSecond)
        m2   == IF mrps.ok
                THEN DebugPrintfWithoutKey(
                         [m1 EXCEPT !.heap[ip].MaxRequestsPerSecond = @ + mrps.value],
                         <<"using env %s", envKeyIPMaxRequestsPerSecond>>)
                ELSE m1
        bt   == getInt64Env(e, envKeyIPBlockTimeMilliseconds)
        m3   == IF bt.ok
                THEN DebugPrintfWithoutKey(
                         [m2 EXCEPT !.heap[ip].BlockTimeMilliseconds = @ + bt.value],
                         <<"using env %s", envKeyIPBlockTimeMilliseconds>>)
                ELSE m2
    IN  IF m1.config.DisableEnvs THEN m1 ELSE m3

configureIP(m0, e) ==
    LET m1   == IF m0.config.IP = 0
                THEN [m0 EXCEPT !.config.IP = m0.defaultConfiguration.IP]
                ELSE m0
        ip   == m1.config.IP
        mrps == getInt64Env(e, envKeyIPMaxRequestsPerSecond)
        m2   == IF mrps.ok
                THEN DebugPrintfWithoutKey(
                         [m1 EXCEPT !.heap[ip].MaxRequestsPerSecond = mrps.value],
                         <<"using env %s", envKeyIPMaxRequestsPerSecond>>)
                ELSE m1
        bt   == getInt64Env(e, envKeyIPBlockTimeMilliseconds)
        m3   == IF bt.ok
                THEN DebugPrintfWithoutKey(
                         [m2 EXCEPT !.heap[ip].BlockTimeMilliseconds = bt.value],
                         <<"using env %s", envKeyIPBlockTimeMilliseconds>>)
                ELSE m2
    IN  IF m1.config.DisableEnvs THEN m1 ELSE m3

configureToken(m0, e) ==
    LET m1   == IF m0.config.Token = 0
                THEN [m0 EXCEPT !.config.Token = m0.defaultConfiguration.Token]
                ELSE m0
        tok  == m1.config.Token
        mrps == getInt64Env(e, envKeyTokenMaxRequestsPerSecond)
        m2   == IF mrps.ok
                THEN DebugPrintfWithoutKey(
                         [m1 EXCEPT !.heap[tok].MaxRequestsPerSecond = mrps.value],
                         <<"using env %s", envKeyTokenMaxRequestsPerSecond>>)
                ELSE m1
        bt   == getInt64Env(e, envKeyTokenBlockTimeMilliseconds)
        m3   == IF bt.ok
                THEN DebugPrintfWithoutKey(
                         [m2 EXCEPT !.heap[tok].BlockTimeMilliseconds = bt.value],
                         <<"using env %s", envKeyTokenBlockTimeMilliseconds>>)
                ELSE m2
    IN  IF m1.config.DisableEnvs THEN m1 ELSE m3

-----------------------------------------------------------------------------
(* Custom Token Discoverer *)

TokenPrefix == <<"R", "A", "T", "E", "_", "L", "I", "M", "I", "T", "E", "R", "_", "T", "O", "K", "E", "N", "_">>
MaxRequestsSuffix == <<"_", "M", "A", "X", "_", "R", "E", "Q", "U", "E", "S", "T", "S">>
BlockTimeSuffix == <<"_", "B", "L", "O", "C", "K", "_", "T", "I", "M", "E">>

\* the pattern with one of its two endings: the name starts with
\* "RATE_LIMITER_TOKEN_", ends with the suffix, the two do not overlap, and
\* what lies between (possibly nothing) is matched by '.*': '.' matches any
\* character but a line feed, the pattern having no s flag
envKeyRegexMatchSuffix(envKey, suffix) ==
    /\ Len(envKey) >= Len(TokenPrefix) + Len(suffix)
    /\ SubSeq(envKey, 1, Len(TokenPrefix)) = TokenPrefix
    /\ SubSeq(envKey, Len(envKey) - Len(suffix) + 1, Len(envKey)) = suffix
    /\ \A i \in (Len(TokenPrefix) + 1)..(Len(envKey) - Len(suffix)) : envKey[i] # "\n"

\* a variant whose pattern knows only the MAX_REQUESTS form
envKeyRegexMatch_MaxRequestsOnly(envKey) ==
    envKeyRegexMatchSuffix(envKey, MaxRequestsSuffix)

\* "^RATE_LIMITER_TOKEN_(.*)_(MAX_REQUESTS|BLOCK_TIME)$"
envKeyRegexMatch(envKey) ==
    \E suffix \in {MaxRequestsSuffix, BlockTimeSuffix} : envKeyRegexMatchSuffix(envKey, suffix)

\* FindStringSubmatch(envKey)[1]: everything between the prefix and the suffix;
\* a name has one of the two endings at most, so the group is determined
envKeySubmatch(envKey) ==
    LET suffix == IF SubSeq(envKey, Len(envKey) - Len(MaxRequestsSuffix) + 1, Len(envKey))
                        = MaxRequestsSuffix
                  THEN MaxRequestsSuffix ELSE BlockTimeSuffix
    IN  SubSeq(envKey, Len(TokenPrefix) + 1, Len(envKey) - Len(suffix))

\* the distinct identifiers found in os.Environ()
getCustomTokenList(e) ==
    {envKeySubmatch(envKey) : envKey \in {k \in DOMAIN e : envKeyRegexMatch(k)}}

-----------------------------------------------------------------------------
(* Precedence Resolver: custom tokens *)

\* a variant that completes a nil entry with the compiled-in Token default
completeEntry_DefaultToken(m, value) ==
    IF value = 0 THEN m.defaultConfiguration.Token ELSE value

\* a variant that leaves a nil entry as it is
completeEntry_Skip(m, value) == value

\* lines 142-145: a nil entry becomes config.Token (the same object)
completeEntry(m, value) ==
    IF value = 0 THEN m.config.Token ELSE value

\* lines 137-146: nil pointer substitution, then completion of the caller's
\* entries (ranging over a nil map visits nothing)
configureCustomTokens(m0) ==
    LET m1 == IF ~m0.config.CustomTokens.present
              THEN [m0 EXCEPT !.config.CustomTokens = m0.defaultConfiguration.CustomTokens,
                              !.tokensAreDefault = TRUE]
              ELSE m0
        entries == m1.config.CustomTokens.entries
    IN  Shared([m1 EXCEPT !.config.CustomTokens.entries =
                   [key \in DOMAIN entries |-> completeEntry(m1, entries[key])]])

\* a variant that falls back to the compiled-in Token default
customTokenDefaultValue_Raw(m) == m.heap[m.defaultConfiguration.Token]

\* lines 183, 191: the fallback of a custom token's field is config.Token's field
customTokenDefaultValue(m) == m.heap[m.config.Token]

configureCustomToken(m0, e, customToken) ==
    LET m1 == DebugPrintfWithoutKey(m0, <<"configuring custom token %s", customToken>>)
        maxRequestsPerSecondEnvKey == TokenPrefix \o customToken \o MaxRequestsSuffix
        mrps == getInt64Env(e, maxRequestsPerSecondEnvKey)
        m2 == IF ~mrps.ok
              THEN DebugPrintfWithoutKey(m1,
                       <<"env %s not found: using default value %d",
                         maxRequestsPerSecondEnvKey,
                         customTokenDefaultValue(m1).MaxRequestsPerSecond>>)
              ELSE m1
        maxRequestsPerSecond ==
            IF mrps.ok THEN mrps.value
            ELSE customTokenDefaultValue(m1).MaxRequestsPerSecond
        blockTimeMillisecondEnvKey == TokenPrefix \o customToken \o BlockTimeSuffix
        bt == getInt64Env(e, blockTimeMillisecondEnvKey)
        m3 == IF ~bt.ok
              THEN DebugPrintfWithoutKey(m2,
                       <<"env %s not found: using default value %d",
                         blockTimeMillisecondEnvKey,
                         customTokenDefaultValue(m2).BlockTimeMilliseconds>>)
              ELSE m2
        blockTimeMilliseconds ==
            IF bt.ok THEN bt.value
            ELSE customTokenDefaultValue(m2).BlockTimeMilliseconds
        addr == Len(m3.heap) + 1
    IN  IF ~m3.config.CustomTokens.allocated
        THEN \* line 196: assignment to entry in nil map
             [m3 EXCEPT !.panicked = TRUE]
        ELSE Shared([m3 EXCEPT
                !.heap = Append(@, RateLimiterRateConfig(maxRequestsPerSecond,
                                                         blockTimeMilliseconds)),
                !.config.CustomTokens.entries = MapPut(@, customToken, addr)])

-----------------------------------------------------------------------------
(* Backend Selector *)

configureRedisStorageAdapter(m0, e) ==
    LET m1 == DebugPrintfWithoutKey(m0, <<"using StorageAdapter Redis">>)
        redisAddress  == getStringEnv(e, envRedisAddress)
        redisPassword == getStringEnv(e, envRedisPassword)
        redisDB       == getInt64Env(e, envRedisDB)
    IN  IF ~redisAddress.ok
        THEN [m1 EXCEPT !.panicked = TRUE]
        ELSE Shared([m1 EXCEPT
                !.config.StorageAdapter =
                    NewRateLimitRedisStorageAdapter(
                        m1.nextId, redisAddress.value,
                        IF redisPassword.ok THEN redisPassword.value ELSE <<>>,
                        IF redisDB.ok THEN redisDB.value ELSE 0),
                !.nextId = @ + 1])

\* a variant in which a backend supplied by the caller wins over the environment
configureStorageAdapter_CallerFirst(m0, e) ==
    LET m1 == IF m0.config.StorageAdapter = NilInterface
              THEN [m0 EXCEPT !.config.StorageAdapter =
                                  m0.defaultConfiguration.StorageAdapter]
              ELSE m0
        useRedis == getBoolEnv(e, envUseRedis)
    IN  IF m1.config.StorageAdapter # m1.defaultConfiguration.StorageAdapter
        THEN DebugPrintfWithoutKey(m1, <<"using StorageAdapter Custom">>)
        ELSE IF useRedis.ok /\ useRedis.value
        THEN configureRedisStorageAdapter(m1, e)
        ELSE DebugPrintfWithoutKey(m1, <<"using StorageAdapter Default">>)

configureStorageAdapter(m0, e) ==
    LET m1 == IF m0.config.StorageAdapter = NilInterface
              THEN [m0 EXCEPT !.config.StorageAdapter =
                                  m0.defaultConfiguration.StorageAdapter]
              ELSE m0
        useRedis == getBoolEnv(e, envUseRedis)
    IN  IF useRedis.ok /\ useRedis.value
        THEN configureRedisStorageAdapter(m1, e)
        ELSE IF m1.config.StorageAdapter # m1.defaultConfiguration.StorageAdapter
        THEN DebugPrintfWithoutKey(m1, <<"using StorageAdapter Custom">>)
        ELSE DebugPrintfWithoutKey(m1, <<"using StorageAdapter Default">>)

-----------------------------------------------------------------------------
(* Response Writer Selector *)

configureResponseWriter(m0) ==
    LET m1 == IF m0.config.ResponseWriter = NilInterface
              THEN [m0 EXCEPT !.config.ResponseWriter =
                                  m0.defaultConfiguration.ResponseWriter]
              ELSE m0
    IN  IF m1.config.ResponseWriter # m1.defaultConfiguration.ResponseWriter
        THEN DebugPrintfWithoutKey(m1, <<"using ResponseWriter Custom">>)
        ELSE DebugPrintfWithoutKey(m1, <<"using ResponseWriter Default">>)

-----------------------------------------------------------------------------
(* The configuration as its readers see it *)

NilRate == [MaxRequestsPerSecond |-> -1, BlockTimeMilliseconds |-> -1, isNil |-> TRUE]

\* the policy a pointer leads to
Deref(h, addr) ==
    IF addr = 0 THEN NilRate
    ELSE [MaxRequestsPerSecond |-> h[addr].MaxRequestsPerSecond,
          BlockTimeMilliseconds |-> h[addr].BlockTimeMilliseconds,
          isNil |-> FALSE]

\* json.Marshal(config): ip, token, tokens, debug, disableEnvs
jsonConfiguration(c, h) ==
    [ip |-> Deref(h, c.IP),
     token |-> Deref(h, c.Token),
     tokens |-> [key \in DOMAIN c.CustomTokens.entries |->
                    Deref(h, c.CustomTokens.entries[key])],
     tokensNil |-> ~c.CustomTokens.allocated,
     debug |-> c.Debug,
     disableEnvs |-> c.DisableEnvs]

\* the resolved values, without the identity of the backend and the responder
Resolved(c, h) ==
    [IP |-> Deref(h, c.IP),
     Token |-> Deref(h, c.Token),
     CustomTokens |-> [key \in DOMAIN c.CustomTokens.entries |->
                          Deref(h, c.CustomTokens.entries[key])],
     CustomTokensNil |-> ~c.CustomTokens.allocated,
     StorageAdapter |-> [c.StorageAdapter EXCEPT !.id = 0],
     ResponseWriter |-> [c.ResponseWriter EXCEPT !.id = 0],
     Debug |-> c.Debug]

\* lines 86-93: the snapshot of the final configuration
setConfigurationReturn(m) ==
    DebugPrintfWithoutKey(m, <<"using configuration: %s",
                               jsonConfiguration(m.config, m.heap)>>)

-----------------------------------------------------------------------------
(* setConfiguration as a function of the argument and the environment *)

RECURSIVE configureCustomTokenList(_, _, _)
\* lines 148-151: the list was built by ranging over a map, so the loop takes
\* the identifiers in any order and stops at a panic: every state it can end in
configureCustomTokenList(m, e, tokens) ==
    IF tokens = {} \/ m.panicked THEN {m}
    ELSE UNION {configureCustomTokenList(configureCustomToken(m, e, customToken), e,
                                         tokens \ {customToken}) :
                   customToken \in tokens}

\* the rest of the call after the custom tokens
setConfigurationRest(m4, e) ==
    LET m5 == configureStorageAdapter(m4, e)
        m6 == setConfigurationReturn(configureResponseWriter(m5))
    IN  IF m4.panicked
        THEN [returned |-> FALSE, config |-> m4.config, heap |-> m4.heap, out |-> m4.out]
        ELSE IF m5.panicked
        THEN [returned |-> FALSE, config |-> m5.config, heap |-> m5.heap, out |-> m5.out]
        ELSE [returned |-> TRUE, config |-> m6.config, heap |-> m6.heap, out |-> m6.out]

\* [returned, config, heap, out]: the outcomes the call can have
setConfiguration(arg, e) ==
    LET m0 == [config |-> arg.config, heap |-> arg.heap,
               defaultConfiguration |-> ZeroConfig,
               configIsDefault |-> FALSE, tokensAreDefault |-> FALSE,
               nextId |-> arg.nextId, out |-> <<>>, panicked |-> FALSE]
        m1 == setConfigurationEntry(m0, arg.isNil, e)
        m2 == configureIP(m1, e)
        m3 == configureToken(m2, e)
    IN  {setConfigurationRest(m4, e) :
            m4 \in configureCustomTokenList(configureCustomTokens(m3), e,
                                            getCustomTokenList(e))}

-----------------------------------------------------------------------------
(* The documented names of the environment variables, spelled out and not  *)
(* taken from the code's constants: the inputs and the properties use      *)
(* these.                                                                  *)

Var_DEBUG ==
    <<"R", "A", "T", "E", "_", "L", "I", "M", "I", "T", "E", "R", "_", "D", "E", "B", "U", "G">>
Var_IP_MAX_REQUESTS ==
    <<"R", "A", "T", "E", "_", "L", "I", "M", "I", "T", "E", "R", "_", "I", "P", "_", "M", "A",
      "X", "_", "R", "E", "Q", "U", "E", "S", "T", "S">>
Var_IP_BLOCK_TIME ==
    <<"R", "A", "T", "E", "_", "L", "I", "M", "I", "T", "E", "R", "_", "I", "P", "_", "B", "L",
      "O", "C", "K", "_", "T", "I", "M", "E">>
Var_TOKEN_MAX_REQUESTS ==
    <<"R", "A", "T", "E", "_", "L", "I", "M", "I", "T", "E", "R", "_", "T", "O", "K", "E", "N",
      "_", "M", "A", "X", "_", "R", "E", "Q", "U", "E", "S", "T", "S">>
Var_TOKEN_BLOCK_TIME ==
    <<"R", "A", "T", "E", "_", "L", "I", "M", "I", "T", "E", "R", "_", "T", "O", "K", "E", "N",
      "_", "B", "L", "O", "C", "K", "_", "T", "I", "M", "E">>
Var_USE_REDIS ==
    <<"R", "A", "T", "E", "_", "L", "I", "M", "I", "T", "E", "R", "_", "U", "S", "E", "_", "R",
      "E", "D", "I", "S">>
Var_REDIS_ADDRESS ==
    <<"R", "A", "T", "E", "_", "L", "I", "M", "I", "T", "E", "R", "_", "R", "E", "D", "I", "S",
      "_", "A", "D", "D", "R", "E", "S", "S">>
Var_REDIS_PASSWORD ==
    <<"R", "A", "T", "E", "_", "L", "I", "M", "I", "T", "E", "R", "_", "R", "E", "D", "I", "S",
      "_", "P", "A", "S", "S", "W", "O", "R", "D">>
Var_REDIS_DB ==
    <<"R", "A", "T", "E", "_", "L", "I", "M", "I", "T", "E", "R", "_", "R", "E", "D", "I", "S",
      "_", "D", "B">>
Var_TOKEN_ID_MAX_REQUESTS(id) ==
    <<"R", "A", "T", "E", "_", "L", "I", "M", "I", "T", "E", "R", "_", "T", "O", "K", "E", "N", "_">>
        \o id \o <<"_", "M", "A", "X", "_", "R", "E", "Q", "U", "E", "S", "T", "S">>
Var_TOKEN_ID_BLOCK_TIME(id) ==
    <<"R", "A", "T", "E", "_", "L", "I", "M", "I", "T", "E", "R", "_", "T", "O", "K", "E", "N", "_">>
        \o id \o <<"_", "B", "L", "O", "C", "K", "_", "T", "I", "M", "E">>

-----------------------------------------------------------------------------
(* Inputs: what the caller passes and what the environment holds.  An      *)
(* optional value is a sequence of length 0 (absent / nil) or 1.           *)

RECURSIVE AllocEntries(_, _, _)
\* the caller's custom token map: one object of its own per non-nil entry
AllocEntries(opts, h, entries) ==
    IF DOMAIN opts = DOMAIN entries THEN [heap |-> h, entries |-> entries]
    ELSE LET key == CHOOSE k \in DOMAIN opts \ DOMAIN entries : TRUE
         IN  IF opts[key] = <<>>
             THEN AllocEntries(opts, h, MapPut(entries, key, 0))
             ELSE AllocEntries(opts, Append(h, opts[key][1]),
                               MapPut(entries, key, Len(h) + 1))

\* &RateLimiterConfig{IP: ..., Token: ..., CustomTokens: ..., ...}
CallerConfig(ip, token, tokens, adapter, writer, debug, disableEnvs) ==
    LET h1 == IF ip = <<>> THEN <<>> ELSE <<ip[1]>>
        h2 == IF token = <<>> THEN h1 ELSE Append(h1, token[1])
        a  == IF tokens = <<>> THEN [heap |-> h2, entries |-> <<>>]
              ELSE AllocEntries(tokens[1], h2, <<>>)
    IN  [isNil |-> FALSE,
         heap |-> a.heap,
         nextId |-> 3,
         config |->
           [IP |-> IF ip = <<>> THEN 0 ELSE 1,
            Token |-> IF token = <<>> THEN 0 ELSE Len(h2),
            CustomTokens |-> IF tokens = <<>> THEN NilMap ELSE MapOf(a.entries),
            StorageAdapter |-> IF adapter THEN Instance("custom", 1) ELSE NilInterface,
            ResponseWriter |-> IF writer THEN Instance("custom", 2) ELSE NilInterface,
            Debug |-> debug, DisableEnvs |-> disableEnvs]]

\* &RateLimiterConfig{Token: ..., CustomTokens: new(map[string]*RateLimiterRateConfig), ...}
CallerConfigNilMap(token, disableEnvs) ==
    [CallerConfig(<<>>, token, <<>>, FALSE, FALSE, FALSE, disableEnvs)
        EXCEPT !.config.CustomTokens = PointerToNilMap]

\* setConfiguration(nil)
NilArgument == [isNil |-> TRUE, heap |-> <<>>, nextId |-> 3, config |-> ZeroConfig]

RECURSIVE EnvironmentsOf(_)
\* every environment that sets some of the names of choices, each to one of
\* the values listed for it
EnvironmentsOf(choices) ==
    IF DOMAIN choices = {} THEN {<<>>}
    ELSE LET name   == CHOOSE k \in DOMAIN choices : TRUE
             others == EnvironmentsOf([k \in DOMAIN choices \ {name} |-> choices[k]])
         IN  others \cup {MapPut(e, name, value) : e \in others, value \in choices[name]}

\* custom token identifiers: "", "A", "B_1", "C", A line feed B, and a line
\* feed alone
TokenLineFeed == <<"A", "\n", "B">>
TokenOnlyLineFeed == <<"\n">>
TokenEmpty == <<>>
TokenA == <<"A">>
TokenB1 == <<"B", "_", "1">>
TokenC == <<"C">>

Choice(key, values) == [k \in {key} |-> values]

\* the names of the IP / Token / debug dimension
PolicyChoices ==
    Choice(Var_DEBUG, {<<"t", "r", "u", "e">>, <<"m", "a", "y", "b", "e">>}) @@
    Choice(Var_IP_MAX_REQUESTS, {<<"1", "3">>, <<"x">>}) @@
    Choice(Var_IP_BLOCK_TIME, {<<"1", "4">>, <<>>}) @@
    Choice(Var_TOKEN_MAX_REQUESTS, {<<"2", "3">>, <<"2", "x">>}) @@
    Choice(Var_TOKEN_BLOCK_TIME, {<<"-", "2", "4">>}) @@
    Choice(Var_TOKEN_ID_BLOCK_TIME(TokenA), {<<"3", "4">>})

PolicyCallers ==
    {NilArgument} \cup
    {CallerConfig(ip, token, <<>>, FALSE, FALSE, FALSE, disableEnvs) :
        ip \in {<<>>, <<RateLimiterRateConfig(11, 12)>>},
        token \in {<<>>, <<RateLimiterRateConfig(21, 22)>>},
        disableEnvs \in BOOLEAN}

\* the names of the custom token dimension, with two names the pattern rejects
TokenChoices ==
    Choice(Var_TOKEN_MAX_REQUESTS, {<<"2", "3">>}) @@
    Choice(Var_TOKEN_ID_MAX_REQUESTS(TokenA), {<<"3", "3">>, <<"x">>}) @@
    Choice(Var_TOKEN_ID_BLOCK_TIME(TokenA), {<<"3", "4">>}) @@
    Choice(Var_TOKEN_ID_BLOCK_TIME(TokenB1), {<<"4", "4">>}) @@
    Choice(<<"X", "R", "A", "T", "E", "_", "L", "I", "M", "I", "T", "E", "R", "_", "T", "O", "K", "E", "N", "_", "A", "_", "M", "A", "X", "_", "R", "E", "Q", "U", "E", "S", "T", "S">>,
           {<<"9">>}) @@
    Choice(<<"R", "A", "T", "E", "_", "L", "I", "M", "I", "T", "E", "R", "_", "T", "O", "K", "E", "N", "_", "A", "_", "M", "A", "X">>,
           {<<"9">>})

TokenMaps ==
    {<<>>,
     << <<>> >>,
     << [k \in {TokenA} |-> <<>>] >>,
     << [k \in {TokenA} |-> <<RateLimiterRateConfig(31, 32)>>] >>,
     << [k \in {TokenA, TokenC} |->
            IF k = TokenA THEN <<RateLimiterRateConfig(31, 32)>> ELSE <<>>] >>}

TokenCallers ==
    {NilArgument} \cup
    {CallerConfig(<<>>, token, tokens, FALSE, FALSE, FALSE, disableEnvs) :
        token \in {<<>>, <<RateLimiterRateConfig(21, 22)>>},
        tokens \in TokenMaps,
        disableEnvs \in BOOLEAN} \cup
    {CallerConfigNilMap(token, disableEnvs) :
        token \in {<<>>, <<RateLimiterRateConfig(21, 22)>>},
        disableEnvs \in BOOLEAN}

\* names whose identifier is the empty string or holds a line feed, beside
\* those of A
EmptyIdChoices ==
    Choice(Var_TOKEN_ID_BLOCK_TIME(TokenLineFeed), {<<"7", "4">>}) @@
    Choice(Var_TOKEN_ID_MAX_REQUESTS(TokenOnlyLineFeed), {<<"7", "5">>}) @@
    Choice(Var_TOKEN_ID_MAX_REQUESTS(TokenEmpty), {<<"9", "3">>}) @@
    Choice(Var_TOKEN_ID_BLOCK_TIME(TokenEmpty), {<<"9", "4">>, <<"x">>}) @@
    Choice(Var_TOKEN_ID_MAX_REQUESTS(TokenA), {<<"3", "3">>}) @@
    Choice(Var_TOKEN_BLOCK_TIME, {<<"-", "2", "4">>})

EmptyIdCallers ==
    {NilArgument} \cup
    {CallerConfig(<<>>, <<>>, tokens, FALSE, FALSE, FALSE, disableEnvs) :
        tokens \in {<<>>, << [k \in {TokenEmpty} |-> <<>>] >>,
                    << [k \in {TokenLineFeed} |-> <<RateLimiterRateConfig(71, 72)>>] >>},
        disableEnvs \in BOOLEAN}

\* the names of the backend dimension
BackendChoices ==
    Choice(Var_USE_REDIS, {<<"t", "r", "u", "e">>, <<"T", "R", "U", "E">>,
                         <<"f", "a", "l", "s", "e">>, <<"y", "e", "s">>}) @@
    Choice(Var_REDIS_ADDRESS, {<<"h">>, <<>>}) @@
    Choice(Var_REDIS_PASSWORD, {<<"p">>}) @@
    Choice(Var_REDIS_DB, {<<"2">>, <<"x">>}) @@
    Choice(Var_DEBUG, {<<"t", "r", "u", "e">>, <<"F", "a", "l", "s", "e">>})

BackendCallers ==
    {NilArgument} \cup
    {CallerConfig(<<>>, <<>>, <<>>, adapter, writer, debug, disableEnvs) :
        adapter \in BOOLEAN, writer \in BOOLEAN,
        debug \in BOOLEAN, disableEnvs \in BOOLEAN}

-----------------------------------------------------------------------------
(* The state machine: one call of setConfiguration, step by step, and      *)
(* further calls on the object the previous call returned.                 *)

Start(arg, e) ==
    /\ env = e
    /\ argNil = arg.isNil
    /\ config = arg.config
    /\ heap = arg.heap
    /\ nextId = arg.nextId
    /\ defaultConfiguration = ZeroConfig
    /\ configIsDefault = FALSE
    /\ tokensAreDefault = FALSE
    /\ customTokens = {}
    /\ out = <<>>
    /\ pc = "setConfiguration"
    /\ caller = arg
    /\ calls = 1

Init ==
    \/ \E arg \in PolicyCallers, e \in EnvironmentsOf(PolicyChoices) : Start(arg, e)
    \/ \E arg \in TokenCallers, e \in EnvironmentsOf(TokenChoices) : Start(arg, e)
    \/ \E arg \in EmptyIdCallers, e \in EnvironmentsOf(EmptyIdChoices) : Start(arg, e)
    \/ \E arg \in BackendCallers, e \in EnvironmentsOf(BackendChoices) : Start(arg, e)

Install(m, next) ==
    /\ config' = m.config
    /\ heap' = m.heap
    /\ defaultConfiguration' = m.defaultConfiguration
    /\ configIsDefault' = m.configIsDefault
    /\ tokensAreDefault' = m.tokensAreDefault
    /\ nextId' = m.nextId
    /\ out' = m.out
    /\ pc' = IF m.panicked THEN "panicked" ELSE next

SetConfiguration ==
    /\ pc = "setConfiguration"
    /\ Install(setConfigurationEntry(Machine, argNil, env), "configureIP")
    /\ UNCHANGED <<env, argNil, customTokens, caller, calls>>

ConfigureIP ==
    /\ pc = "configureIP"
    /\ Install(configureIP(Machine, env), "configureToken")
    /\ UNCHANGED <<env, argNil, customTokens, caller, calls>>

ConfigureToken ==
    /\ pc = "configureToken"
    /\ Install(configureToken(Machine, env), "configureCustomTokens")
    /\ UNCHANGED <<env, argNil, customTokens, caller, calls>>

\* lines 137-148: up to the call of getCustomTokenList
ConfigureCustomTokens ==
    /\ pc = "configureCustomTokens"
    /\ customTokens' = getCustomTokenList(env)
    /\ Install(configureCustomTokens(Machine),
               IF customTokens' = {} THEN "configureStorageAdapter"
               ELSE "configureCustomToken")
    /\ UNCHANGED <<env, argNil, caller, calls>>

\* lines 149-151: one iteration; the list was built by ranging over a map, so
\* its order is any order
ConfigureCustomToken ==
    /\ pc = "configureCustomToken"
    /\ \E customToken \in customTokens :
          /\ customTokens' = customTokens \ {customToken}
          /\ Install(configureCustomToken(Machine, env, customToken),
                     IF customTokens' = {} THEN "configureStorageAdapter"
                     ELSE "configureCustomToken")
    /\ UNCHANGED <<env, argNil, caller, calls>>

ConfigureStorageAdapter ==
    /\ pc = "configureStorageAdapter"
    /\ Install(configureStorageAdapter(Machine, env), "configureResponseWriter")
    /\ UNCHANGED <<env, argNil, customTokens, caller, calls>>

ConfigureResponseWriter ==
    /\ pc = "configureResponseWriter"
    /\ Install(configureResponseWriter(Machine), "return")
    /\ UNCHANGED <<env, argNil, customTokens, caller, calls>>

Return ==
    /\ pc = "return"
    /\ Install(setConfigurationReturn(Machine), "returned")
    /\ UNCHANGED <<env, argNil, customTokens, caller, calls>>

\* the returned object is passed to setConfiguration again, same environment
ResolveAgain ==
    /\ pc = "returned"
    /\ calls < MaxCalls
    /\ calls' = calls + 1
    /\ caller' = [isNil |-> FALSE, heap |-> heap, nextId |-> nextId, config |-> config]
    /\ argNil' = FALSE
    /\ pc' = "setConfiguration"
    /\ UNCHANGED <<env, config, heap, defaultConfiguration, configIsDefault,
                   tokensAreDefault, customTokens, nextId, out>>

Next ==
    \/ SetConfiguration
    \/ ConfigureIP
    \/ ConfigureToken
    \/ ConfigureCustomTokens
    \/ ConfigureCustomToken
    \/ ConfigureStorageAdapter
    \/ ConfigureResponseWriter
    \/ Return
    \/ ResolveAgain

Spec == Init /\ [][Next]_vars

-----------------------------------------------------------------------------
(* Vocabulary of the properties *)

Returned == pc = "returned"
Panicked == pc = "panicked"

\* the configuration setConfiguration returned
Result == Resolved(config, heap)

\* the argument of the running call
CallerIP == Deref(caller.heap, caller.config.IP)
CallerToken == Deref(caller.heap, caller.config.Token)
CallerEntries == caller.config.CustomTokens.entries
CallerEntry(id) == Deref(caller.heap, CallerEntries[id])
EnvsEnabled == ~caller.config.DisableEnvs

EmptyEnvironment == <<>>

IsSet(name) == name \in DOMAIN env
HasInteger(name) == IsSet(name) /\ ParseInt(env[name]).ok
IntegerOf(name) == ParseInt(env[name]).value
IsTrue(name) == IsSet(name) /\ ParseBool(env[name]).ok /\ ParseBool(env[name]).value

\* environment, else the caller's value, else the default
Precedence(name, supplied, callerValue, default) ==
    IF HasInteger(name) THEN IntegerOf(name)
    ELSE IF supplied THEN callerValue ELSE default

\* an identifier is declared when one of its two variables is set
Declared(id) == IsSet(Var_TOKEN_ID_MAX_REQUESTS(id)) \/ IsSet(Var_TOKEN_ID_BLOCK_TIME(id))

\* a declared identifier that the discovery pattern can match: it holds no
\* line feed
Matching(id) == Declared(id) /\ \A i \in 1..Len(id) : id[i] # "\n"

\* every string of consecutive characters of a variable name, and the empty
\* string, as a candidate identifier
Candidates ==
    {<<>>} \cup
    UNION {UNION {{SubSeq(name, i, j) : j \in i..Len(name)} : i \in 1..Len(name)} :
              name \in DOMAIN env}

-----------------------------------------------------------------------------
(* C1 *)

\* C1: with DisableEnvs = true, the returned configuration is the one the same
\* caller configuration yields under an entirely empty environment
C1_DisabledEnvsMeansEmptyEnvironment ==
    (Returned /\ caller.config.DisableEnvs) =>
        \E alone \in setConfiguration(caller, EmptyEnvironment) :
            alone.returned /\ Result = Resolved(alone.config, alone.heap)

-----------------------------------------------------------------------------
(* C2 *)

\* C2: a returned configuration has a non-nil IP, Token, CustomTokens map with
\* only non-nil values, StorageAdapter and ResponseWriter
C2_ReturnedConfigurationIsComplete ==
    Returned =>
        /\ config.IP \in 1..Len(heap)
        /\ config.Token \in 1..Len(heap)
        /\ config.CustomTokens.present
        /\ \A id \in DOMAIN config.CustomTokens.entries :
              config.CustomTokens.entries[id] \in 1..Len(heap)
        /\ config.StorageAdapter # NilInterface
        /\ config.ResponseWriter # NilInterface

C2_Witness ==
    /\ Returned
    /\ calls = 1
    /\ ~caller.isNil
    /\ caller.config.IP = 0
    /\ caller.config.Token = 0
    /\ \E id \in DOMAIN CallerEntries : CallerEntries[id] = 0
    /\ caller.config.StorageAdapter = NilInterface
    /\ caller.config.ResponseWriter = NilInterface

-----------------------------------------------------------------------------
(* C3 *)

\* C3: with DisableEnvs = false each of IP.MaxRequestsPerSecond,
\* IP.BlockTimeMilliseconds, Token.MaxRequestsPerSecond and
\* Token.BlockTimeMilliseconds equals its own variable's integer when that is
\* set and parseable, else the caller's value when the caller supplied the
\* policy, else the default (100/1000, 200/500)
C3_PolicyFieldsResolvedIndependently ==
    (Returned /\ EnvsEnabled) =>
        /\ Result.IP.MaxRequestsPerSecond =
              Precedence(Var_IP_MAX_REQUESTS, ~CallerIP.isNil,
                         CallerIP.MaxRequestsPerSecond, 100)
        /\ Result.IP.BlockTimeMilliseconds =
              Precedence(Var_IP_BLOCK_TIME, ~CallerIP.isNil,
                         CallerIP.BlockTimeMilliseconds, 1000)
        /\ Result.Token.MaxRequestsPerSecond =
              Precedence(Var_TOKEN_MAX_REQUESTS, ~CallerToken.isNil,
                         CallerToken.MaxRequestsPerSecond, 200)
        /\ Result.Token.BlockTimeMilliseconds =
              Precedence(Var_TOKEN_BLOCK_TIME, ~CallerToken.isNil,
                         CallerToken.BlockTimeMilliseconds, 500)

\* one field of each pair from the environment, the other from the caller or
\* the default
C3_Witness ==
    /\ Returned /\ EnvsEnabled /\ calls = 1
    /\ ~CallerIP.isNil /\ CallerToken.isNil
    /\ IsSet(Var_IP_MAX_REQUESTS) /\ ~HasInteger(Var_IP_MAX_REQUESTS)
    /\ HasInteger(Var_IP_BLOCK_TIME)
    /\ HasInteger(Var_TOKEN_MAX_REQUESTS) /\ ~IsSet(Var_TOKEN_BLOCK_TIME)
    /\ Result.IP = [MaxRequestsPerSecond |-> 11, BlockTimeMilliseconds |-> 14,
                    isNil |-> FALSE]
    /\ Result.Token = [MaxRequestsPerSecond |-> 23, BlockTimeMilliseconds |-> 500,
                       isNil |-> FALSE]

-----------------------------------------------------------------------------
(* C4 *)

\* C4 as stated: with DisableEnvs = false and no caller custom tokens, the keys
\* of the resolved mapping are exactly the identifiers with at least one of
\* their two variables set, and a field whose variable is missing or
\* unparseable equals that field of the resolved Token policy
C4_DiscoveryCompleteness ==
    (Returned /\ EnvsEnabled /\ DOMAIN CallerEntries = {}) =>
        /\ \A id \in DOMAIN Result.CustomTokens : Declared(id)
        /\ \A id \in Candidates : Declared(id) => id \in DOMAIN Result.CustomTokens
        /\ \A id \in DOMAIN Result.CustomTokens :
              /\ ~HasInteger(Var_TOKEN_ID_MAX_REQUESTS(id)) =>
                    Result.CustomTokens[id].MaxRequestsPerSecond =
                        Result.Token.MaxRequestsPerSecond
              /\ ~HasInteger(Var_TOKEN_ID_BLOCK_TIME(id)) =>
                    Result.CustomTokens[id].BlockTimeMilliseconds =
                        Result.Token.BlockTimeMilliseconds

\* C4 as amended: with DisableEnvs = false and no caller custom tokens, the keys
\* of the resolved mapping are exactly the identifiers without a line feed that
\* have at least one of their two variables set, and a field whose variable is
\* missing or unparseable equals that field of the resolved Token policy
C4_DiscoveryOfMatchingIdentifiers ==
    (Returned /\ EnvsEnabled /\ DOMAIN CallerEntries = {}) =>
        /\ \A id \in DOMAIN Result.CustomTokens : Matching(id)
        /\ \A id \in Candidates : Matching(id) => id \in DOMAIN Result.CustomTokens
        /\ \A id \in DOMAIN Result.CustomTokens :
              /\ ~HasInteger(Var_TOKEN_ID_MAX_REQUESTS(id)) =>
                    Result.CustomTokens[id].MaxRequestsPerSecond =
                        Result.Token.MaxRequestsPerSecond
              /\ ~HasInteger(Var_TOKEN_ID_BLOCK_TIME(id)) =>
                    Result.CustomTokens[id].BlockTimeMilliseconds =
                        Result.Token.BlockTimeMilliseconds

\* A by MAX_REQUESTS only, the empty identifier by an unparseable BLOCK_TIME
\* only, a Token policy that is not the default, and two variables whose
\* identifiers hold a line feed and are not discovered
C4_Witness ==
    /\ Returned /\ EnvsEnabled /\ calls = 1 /\ DOMAIN CallerEntries = {}
    /\ IsSet(Var_TOKEN_ID_BLOCK_TIME(TokenLineFeed))
    /\ IsSet(Var_TOKEN_ID_MAX_REQUESTS(TokenOnlyLineFeed))
    /\ IsSet(Var_TOKEN_ID_BLOCK_TIME(TokenEmpty))
    /\ ~HasInteger(Var_TOKEN_ID_BLOCK_TIME(TokenEmpty))
    /\ ~IsSet(Var_TOKEN_ID_MAX_REQUESTS(TokenEmpty))
    /\ HasInteger(Var_TOKEN_BLOCK_TIME)
    /\ DOMAIN Result.CustomTokens = {TokenA, TokenEmpty}
    /\ Result.CustomTokens[TokenA].MaxRequestsPerSecond = 33
    /\ Result.CustomTokens[TokenA].BlockTimeMilliseconds = -24
    /\ Result.CustomTokens[TokenEmpty].MaxRequestsPerSecond = 200
    /\ Result.CustomTokens[TokenEmpty].BlockTimeMilliseconds = -24

-----------------------------------------------------------------------------
(* C5 *)

\* C5: a caller entry whose value is nil and whose identifier no variable
\* declares resolves to the resolved Token policy: the Token variables if
\* enabled, else the caller's Token, else 200/500
C5_CallerEntryCompletion ==
    Returned =>
        \A id \in DOMAIN CallerEntries :
            (CallerEntries[id] = 0 /\ ~Declared(id)) =>
                /\ Result.CustomTokens[id] = Result.Token
                /\ Result.CustomTokens[id].MaxRequestsPerSecond =
                      IF EnvsEnabled
                      THEN Precedence(Var_TOKEN_MAX_REQUESTS, ~CallerToken.isNil,
                                      CallerToken.MaxRequestsPerSecond, 200)
                      ELSE IF CallerToken.isNil THEN 200
                      ELSE CallerToken.MaxRequestsPerSecond
                /\ Result.CustomTokens[id].BlockTimeMilliseconds =
                      IF EnvsEnabled
                      THEN Precedence(Var_TOKEN_BLOCK_TIME, ~CallerToken.isNil,
                                      CallerToken.BlockTimeMilliseconds, 500)
                      ELSE IF CallerToken.isNil THEN 500
                      ELSE CallerToken.BlockTimeMilliseconds

\* the caller's Token and the Token variable both reach the completed entry
C5_Witness ==
    /\ Returned /\ calls = 1
    /\ TokenC \in DOMAIN CallerEntries
    /\ CallerEntries[TokenC] = 0
    /\ ~Declared(TokenC)
    /\ Result.CustomTokens[TokenC] =
          [MaxRequestsPerSecond |-> 23, BlockTimeMilliseconds |-> 22, isNil |-> FALSE]

-----------------------------------------------------------------------------
(* C6 *)

RedisWithoutAddress == IsTrue(Var_USE_REDIS) /\ ~IsSet(Var_REDIS_ADDRESS)

\* C6: when RATE_LIMITER_USE_REDIS is true and RATE_LIMITER_REDIS_ADDRESS is
\* unset the call panics and returns nothing; in every other case it does not
\* panic, and every call that has not ended can take its next step
C6_MandatoryAddress ==
    /\ Returned => ~RedisWithoutAddress
    /\ Panicked => RedisWithoutAddress
    /\ (Returned \/ Panicked) \/ ENABLED Next

-----------------------------------------------------------------------------
(* C7 *)

\* C7 as stated: with DisableEnvs = false, for an identifier with a non-nil
\* caller entry and at least one variable that the pattern matches, a field
\* takes its variable's integer when set and parseable and otherwise keeps the
\* caller's value of that entry
C7_CallerValueSurvives ==
    (Returned /\ EnvsEnabled) =>
        \A id \in DOMAIN CallerEntries :
            (CallerEntries[id] # 0 /\ Matching(id)) =>
                /\ Result.CustomTokens[id].MaxRequestsPerSecond =
                      IF HasInteger(Var_TOKEN_ID_MAX_REQUESTS(id))
                      THEN IntegerOf(Var_TOKEN_ID_MAX_REQUESTS(id))
                      ELSE CallerEntry(id).MaxRequestsPerSecond
                /\ Result.CustomTokens[id].BlockTimeMilliseconds =
                      IF HasInteger(Var_TOKEN_ID_BLOCK_TIME(id))
                      THEN IntegerOf(Var_TOKEN_ID_BLOCK_TIME(id))
                      ELSE CallerEntry(id).BlockTimeMilliseconds

\* C7 as amended: with DisableEnvs = false, for an identifier with a non-nil
\* caller entry and at least one variable that the pattern matches, a field
\* takes its variable's integer when set and parseable and otherwise the same
\* field of the resolved Token policy; the caller's value of that entry is not
\* kept
C7_EnvironmentReplacesCallerEntry ==
    (Returned /\ EnvsEnabled) =>
        \A id \in DOMAIN CallerEntries :
            (CallerEntries[id] # 0 /\ Matching(id)) =>
                /\ Result.CustomTokens[id].MaxRequestsPerSecond =
                      IF HasInteger(Var_TOKEN_ID_MAX_REQUESTS(id))
                      THEN IntegerOf(Var_TOKEN_ID_MAX_REQUESTS(id))
                      ELSE Result.Token.MaxRequestsPerSecond
                /\ Result.CustomTokens[id].BlockTimeMilliseconds =
                      IF HasInteger(Var_TOKEN_ID_BLOCK_TIME(id))
                      THEN IntegerOf(Var_TOKEN_ID_BLOCK_TIME(id))
                      ELSE Result.Token.BlockTimeMilliseconds

\* the caller gave A = 31/32 and Token = 21/22; only A's BLOCK_TIME is set
C7_Witness ==
    /\ Returned /\ EnvsEnabled /\ calls = 1
    /\ TokenA \in DOMAIN CallerEntries
    /\ CallerEntries[TokenA] # 0
    /\ CallerEntry(TokenA).MaxRequestsPerSecond = 31
    /\ ~IsSet(Var_TOKEN_ID_MAX_REQUESTS(TokenA))
    /\ HasInteger(Var_TOKEN_ID_BLOCK_TIME(TokenA))
    /\ ~IsSet(Var_TOKEN_MAX_REQUESTS)
    /\ Result.CustomTokens[TokenA] =
          [MaxRequestsPerSecond |-> 21, BlockTimeMilliseconds |-> 34, isNil |-> FALSE]

-----------------------------------------------------------------------------
(* C8 *)

\* C8: resolving the object a call returned once more, under the same
\* environment, returns the same IP, Token, custom token mapping, debug flag
\* and kind of backend and responder
C8_Idempotence ==
    (Returned /\ calls >= 2) => Result = Resolved(caller.config, caller.heap)

\* a second call that had every kind of override to apply again
C8_Witness ==
    /\ Returned /\ calls = 2 /\ EnvsEnabled
    /\ HasInteger(Var_IP_MAX_REQUESTS)
    /\ HasInteger(Var_TOKEN_MAX_REQUESTS)
    /\ Declared(TokenA)
    /\ Result.IP.MaxRequestsPerSecond = 13
    /\ Result.CustomTokens[TokenA].MaxRequestsPerSecond = 23

-----------------------------------------------------------------------------
(* C9 *)

\* C9: if RATE_LIMITER_USE_REDIS is true the backend is a newly constructed
\* Redis backend with RATE_LIMITER_REDIS_ADDRESS, the password or the empty
\* string, and the DB or 0, whatever the caller supplied; otherwise the
\* caller's backend is kept as it is; otherwise the default in-memory backend
\* is installed
C9_BackendSelection ==
    Returned =>
        IF IsTrue(Var_USE_REDIS)
        THEN /\ config.StorageAdapter.kind = "redis"
             /\ config.StorageAdapter.id >= caller.nextId
             /\ config.StorageAdapter # caller.config.StorageAdapter
             /\ config.StorageAdapter.address = env[Var_REDIS_ADDRESS]
             /\ config.StorageAdapter.password =
                   IF IsSet(Var_REDIS_PASSWORD) THEN env[Var_REDIS_PASSWORD] ELSE <<>>
             /\ config.StorageAdapter.db =
                   IF HasInteger(Var_REDIS_DB) THEN IntegerOf(Var_REDIS_DB) ELSE 0
        ELSE IF caller.config.StorageAdapter # NilInterface
        THEN config.StorageAdapter = caller.config.StorageAdapter
        ELSE /\ config.StorageAdapter.kind = "memory"
             /\ config.StorageAdapter = defaultConfiguration.StorageAdapter

\* Redis replaces the caller's backend; password and DB take their defaults
C9_Witness ==
    /\ Returned /\ calls = 1
    /\ IsTrue(Var_USE_REDIS)
    /\ caller.config.StorageAdapter.kind = "custom"
    /\ ~IsSet(Var_REDIS_PASSWORD)
    /\ IsSet(Var_REDIS_DB) /\ ~HasInteger(Var_REDIS_DB)
    /\ Result.StorageAdapter =
          [kind |-> "redis", id |-> 0, address |-> <<"h">>, password |-> <<>>, db |-> 0]

-----------------------------------------------------------------------------
(* C10 *)

\* C10: every identifier the discoverer produces, and so every key it adds to
\* the resolved mapping, is a non-empty string
C10_IdentifiersAreNonEmpty ==
    /\ pc = "configureCustomToken" => <<>> \notin customTokens
    /\ Returned =>
          \A id \in DOMAIN Result.CustomTokens \ DOMAIN CallerEntries : id # <<>>

====
